---- MODULE Spec2Model ----
(***************************************************************************)
(* Chesster: the turn scheduler (BaseGame.play_game), the isolated worker  *)
(* (BaseGame._ai_thread_method), the player clocks (chesster.timer) and    *)
(* the result adjudicator (GameResult._determine_winner).                  *)
(*                                                                         *)
(* Time is counted in whole ticks of time.perf_counter().  The rules       *)
(* engine (python-chess) is outside the repository: a board is its side to *)
(* move and its move stack, a move is a token whose kind says what the     *)
(* rules engine answers about it.                                          *)
(***************************************************************************)
EXTENDS Integers, Sequences, FiniteSets, TLC

\* ------------------------------------------------------------------ bounds
\* The longest game, in plies: chess games are finite (is_game_over() is true
\* by the 75-move and fivefold-repetition rules at the latest).
MaxPly == 3
\* The largest configured start_seconds of a timer.
MaxStart == 2
\* The largest configured increment_seconds of a timer.
MaxIncrement == 1
\* How many moves a worker pushes on its own board beyond the position it got.
WorkerDepth == 1
\* How long the model lets a clock that never expires run in one turn.
MaxElapsed == 3
\* How far below zero the model lets a running clock's seconds_left fall.
MaxOvershoot == 1

\* ------------------------------------------------------------------ values
\* chess.WHITE / chess.BLACK, and Python's None.
WHITE == "white"
BLACK == "black"
None == "None"
COLORS == {WHITE, BLACK}

\* Python's `not color` on a chess.Color.
Not(c) == IF c = WHITE THEN BLACK ELSE WHITE

\* numpy.inf, the start_seconds of a BasicTimer.
Inf == 1000000
\* _start_time of a timer that is not running (None in the source).
NoStart == -1

\* Float arithmetic with inf: inf - x = inf, inf + x = inf.
Minus(a, e) == IF a = Inf THEN Inf ELSE a - e
Plus(a, e) == IF a = Inf THEN Inf ELSE a + e

\* ------------------------------------------------------------------- board
\* The kinds of move a strategy can return: a legal move that leaves the game
\* open, one that mates, one that ends the game without mate (stalemate,
\* insufficient material, ...), and a move that is illegal on the board.
MoveKinds == {"quiet", "mate", "draw", "bad"}

\* A move, tagged with the colour of the strategy that computed it.
MoveOf(c, k) == [by |-> c, kind |-> k]
NoMove == [by |-> None, kind |-> None]

\* chess.Board(): White to move, empty move stack.
NewBoard == [turn |-> WHITE, move_stack |-> <<>>]

Last(s) == s[Len(s)]
ButLast(s) == SubSeq(s, 1, Len(s) - 1)

\* Board.is_legal(move)
is_legal(b, m) == m.kind # "bad"

\* Board.push(move): appends to the move stack and passes the turn.
push(b, m) == [turn |-> Not(b.turn), move_stack |-> Append(b.move_stack, m)]

\* Board.pop(): takes the last move back.
pop(b) == [turn |-> Not(b.turn), move_stack |-> ButLast(b.move_stack)]

\* Board.is_checkmate()
is_checkmate(b) ==
    /\ Len(b.move_stack) > 0
    /\ Last(b.move_stack).kind = "mate"

\* Board.is_game_over()
is_game_over(b) ==
    \/ is_checkmate(b)
    \/ Len(b.move_stack) > 0 /\ Last(b.move_stack).kind = "draw"
    \/ Len(b.move_stack) >= MaxPly

\* ------------------------------------------------------------------ timers
\* BaseTimer.__init__; _elapsed_times is a list object, held apart (see the
\* variable elapsed_times).
BaseTimer(cls, start_seconds, increment_seconds) ==
    [class |-> cls,
     start_seconds |-> start_seconds,
     seconds_left |-> start_seconds,
     start_time |-> NoStart,
     time_clocked |-> 0,
     increment_seconds |-> increment_seconds]

\* What a call returned: the method called, the exception it raised (or None),
\* whether the value is Python's None, and the value.
Returned(op, v) == [op |-> op, raised |-> None, none |-> FALSE, value |-> v]
ReturnedNone(op) == [op |-> op, raised |-> None, none |-> TRUE, value |-> 0]
Failed(op, e) == [op |-> op, raised |-> e, none |-> TRUE, value |-> 0]
NoCall == ReturnedNone(None)

\* A count-up timer built on a finite number of seconds.
BasicTimerFinite == BaseTimer("BasicTimer", MaxStart, 0)

\* BasicTimer.__init__: super().__init__(np.inf, 0)
BasicTimer == BaseTimer("BasicTimer", Inf, 0)

\* IncrementTimer.__init__
IncrementTimer(start_seconds, increment_seconds) ==
    BaseTimer("IncrementTimer", start_seconds, increment_seconds)

\* BaseTimer._elapsed_seconds at perf_counter() = t
elapsed_seconds(tm, t) ==
    IF tm.start_time = NoStart THEN 0 ELSE t - tm.start_time

\* BaseTimer.seconds_left (property)
seconds_left(tm, t) == Minus(tm.seconds_left, elapsed_seconds(tm, t))

\* BaseTimer.time_clocked (property)
time_clocked(tm, t) == tm.time_clocked + elapsed_seconds(tm, t)

\* A clock that counts as alive with exactly no time left.
alive_at_zero(tm, t) == seconds_left(tm, t) >= 0

\* BaseTimer.alive (property)
alive(tm, t) == seconds_left(tm, t) > 0

running(tm) == tm.start_time # NoStart

\* seconds_left > 0 at perf_counter() = t, as BaseTimer.alive tests it.
HasTimeAt(tm, t) == Minus(tm.seconds_left, elapsed_seconds(tm, t)) > 0

\* BaseTimer.start, past its TimerError guard.
start(tm, t) == [tm EXCEPT !.start_time = t]

\* A stop that commits the elapsed time and leaves the clock running.
base_stop_running(tm, t) ==
    [tm EXCEPT !.seconds_left = Minus(@, elapsed_seconds(tm, t)),
               !.time_clocked = @ + elapsed_seconds(tm, t)]

\* BaseTimer.stop, past its TimerError guard (the fields of the timer; the
\* append to _elapsed_times is done by the caller on the shared list).
base_stop(tm, t) ==
    [tm EXCEPT !.seconds_left = Minus(@, elapsed_seconds(tm, t)),
               !.time_clocked = @ + elapsed_seconds(tm, t),
               !.start_time = NoStart]

\* A stop of an increment clock that adds the increment whatever is left.
increment_stop_always(tm, t) ==
    LET s == base_stop(tm, t)
    IN  [s EXCEPT !.seconds_left = Plus(@, s.increment_seconds)]

\* IncrementTimer.stop: the increment is added only if the clock is alive.
increment_stop(tm, t) ==
    LET s == base_stop(tm, t)
    IN  IF alive(s, t)
        THEN [s EXCEPT !.seconds_left = Plus(@, s.increment_seconds)]
        ELSE s

\* BronsteinDelayTimer: the object its __init__ is written to build, the
\* fields of BaseTimer.__init__ with _increment_seconds set afterwards.  (As
\* written the call super().__init__(start_seconds) lacks an argument and
\* raises TypeError; stop is modelled on instances as the class describes
\* them.)
BronsteinDelayTimer(start_seconds, increment_seconds) ==
    BaseTimer("BronsteinDelayTimer", start_seconds, increment_seconds)

\* A stop of a Bronstein clock that adds the whole increment after any move.
bronstein_stop_full(tm, t) ==
    LET s == base_stop(tm, t)
    IN  IF alive(s, t)
        THEN [s EXCEPT !.seconds_left = Plus(@, s.increment_seconds)]
        ELSE s

\* BronsteinDelayTimer.stop: if the clock is alive, the increment is added
\* when the move took at least that long, else the time the move took.
bronstein_stop(tm, t) ==
    LET elapsed == elapsed_seconds(tm, t)
        s == base_stop(tm, t)
    IN  IF alive(s, t)
        THEN IF elapsed >= s.increment_seconds
             THEN [s EXCEPT !.seconds_left = Plus(@, s.increment_seconds)]
             ELSE [s EXCEPT !.seconds_left = Plus(@, elapsed)]
        ELSE s

\* stop() as dispatched on the timer's class (BasicTimer inherits BaseTimer.stop).
stop(tm, t) ==
    IF tm.class = "IncrementTimer" THEN increment_stop(tm, t)
    ELSE IF tm.class = "BronsteinDelayTimer" THEN bronstein_stop(tm, t)
    ELSE base_stop(tm, t)

\* What stop() returns: BaseTimer.stop returns the elapsed time; the stop of
\* IncrementTimer and of BronsteinDelayTimer has no return statement.
stop_returns(tm, t) ==
    IF tm.class \in {"IncrementTimer", "BronsteinDelayTimer"}
    THEN ReturnedNone("stop")
    ELSE Returned("stop", elapsed_seconds(tm, t))

\* BaseTimer.seconds_to_string on whole seconds: minutes, seconds and
\* hundredths as the three numbers of the formatted text.
seconds_to_string(seconds) == <<seconds \div 60, seconds % 60, 0>>

\* display_time(): BaseTimer shows the seconds left, BasicTimer the time clocked.
display_time(tm, t) ==
    IF tm.class = "BasicTimer"
    THEN seconds_to_string(time_clocked(tm, t))
    ELSE seconds_to_string(seconds_left(tm, t))

\* BaseTimer.to_dict, and BasicTimer.to_dict, which gives the class and the
\* time clocked only.  The fields are written as stored: _seconds_left and
\* _time_clocked without the time of a run still going on, and no _start_time.
\* average_elapsed_time is a function of elapsed_times and is left out.
timer_to_dict(tm, history) ==
    IF tm.class = "BasicTimer"
    THEN [class |-> tm.class, time_clocked |-> tm.time_clocked]
    ELSE [class |-> tm.class,
          start_seconds |-> tm.start_seconds,
          increment_seconds |-> tm.increment_seconds,
          seconds_left |-> tm.seconds_left,
          time_clocked |-> tm.time_clocked,
          elapsed_times |-> history]

\* timers[d['class']].from_dict(d): BaseTimer.from_dict reads
\* d['start_seconds'], which a BasicTimer dictionary does not have (KeyError),
\* and calls cls(start_seconds=..., increment_seconds=...), at which
\* BronsteinDelayTimer.__init__ raises TypeError; an IncrementTimer is built
\* stopped, with the stored fields.
timer_from_dict(d) ==
    IF d.class = "BasicTimer"
    THEN [raised |-> "KeyError"]
    ELSE IF d.class = "BronsteinDelayTimer"
    THEN [raised |-> "TypeError"]
    ELSE [raised |-> None,
          timer |-> [class |-> d.class,
                     start_seconds |-> d.start_seconds,
                     seconds_left |-> d.seconds_left,
                     start_time |-> NoStart,
                     time_clocked |-> d.time_clocked,
                     increment_seconds |-> d.increment_seconds],
          elapsed_times |-> d.elapsed_times]

\* ------------------------------------------------------------ adjudication
\* The exception a read of an attribute that the object does not have raises.
AttributeError == "AttributeError"

\* IllegalMove(board, move): the exception keeps a reference to the board it
\* was raised on and the move.  Absent (illegal_move=None) is present = FALSE.
IllegalMove(m) == [present |-> TRUE, move |-> m]
NoIllegalMove == [present |-> FALSE, move |-> NoMove]

\* IllegalMove.offending_color: `return self.board.color`.  A chess.Board has
\* the attribute `turn`; it has no attribute `color`, so the read raises.
offending_color(b) == AttributeError

\* What _determine_winner leaves in the result's fields; raised names the
\* exception that left it before any field was assigned.
Outcome(c, r, sr) == [raised |-> None, color |-> c, reason |-> r, short_reason |-> sr]
Raised(e) == [raised |-> e, color |-> None, reason |-> None, short_reason |-> None]

\* An adjudicator whose compute-time comparison favours the slower side.
determine_winner_slower(b, wt, bt, im, t) ==
    IF is_checkmate(b)
    THEN Outcome(Not(b.turn), "checkmate", "checkmate")
    ELSE IF im.present
    THEN IF offending_color(b) = AttributeError
         THEN Raised(AttributeError)
         ELSE Outcome(Not(offending_color(b)), "illegal move", "illegal move")
    ELSE IF ~alive(bt, t)
    THEN Outcome(WHITE, "time out", "time out")
    ELSE IF ~alive(wt, t)
    THEN Outcome(BLACK, "time out", "time out")
    ELSE IF seconds_left(wt, t) > seconds_left(bt, t)
    THEN Outcome(WHITE, "more time on timer", "timer")
    ELSE IF seconds_left(bt, t) > seconds_left(wt, t)
    THEN Outcome(BLACK, "more time on timer", "timer")
    ELSE IF time_clocked(wt, t) > time_clocked(bt, t)
    THEN Outcome(WHITE, "less time computing", "compute time")
    ELSE IF time_clocked(bt, t) > time_clocked(wt, t)
    THEN Outcome(BLACK, "less time computing", "compute time")
    ELSE Outcome(None, "total tie", "total tie")

\* records/result.py: GameResult._determine_winner on board b, the two timers
\* wt and bt read at perf_counter() = t, and the illegal move im.
determine_winner(b, wt, bt, im, t) ==
    IF is_checkmate(b)
    THEN Outcome(Not(b.turn), "checkmate", "checkmate")
    ELSE IF im.present
    THEN IF offending_color(b) = AttributeError
         THEN Raised(AttributeError)
         ELSE Outcome(Not(offending_color(b)), "illegal move", "illegal move")
    ELSE IF ~alive(bt, t)
    THEN Outcome(WHITE, "time out", "time out")
    ELSE IF ~alive(wt, t)
    THEN Outcome(BLACK, "time out", "time out")
    ELSE IF seconds_left(wt, t) > seconds_left(bt, t)
    THEN Outcome(WHITE, "more time on timer", "timer")
    ELSE IF seconds_left(bt, t) > seconds_left(wt, t)
    THEN Outcome(BLACK, "more time on timer", "timer")
    ELSE IF time_clocked(wt, t) < time_clocked(bt, t)
    THEN Outcome(WHITE, "less time computing", "compute time")
    ELSE IF time_clocked(bt, t) < time_clocked(wt, t)
    THEN Outcome(BLACK, "less time computing", "compute time")
    ELSE Outcome(None, "total tie", "total tie")

\* game/base.py: the GameResult class that BaseGame.play_game instantiates,
\* and its _determine_winner (it has no short reason).
base_determine_winner(b, wt, bt, im, t) ==
    IF is_checkmate(b)
    THEN Outcome(b.turn, "Checkmate", None)
    ELSE IF im.present
    THEN IF offending_color(b) = AttributeError
         THEN Raised(AttributeError)
         ELSE Outcome(Not(offending_color(b)), "Illegal move", None)
    ELSE IF ~alive(bt, t)
    THEN Outcome(WHITE, "Black ran out of time", None)
    ELSE IF ~alive(wt, t)
    THEN Outcome(BLACK, "White ran out of time", None)
    ELSE IF seconds_left(wt, t) > seconds_left(bt, t)
    THEN Outcome(WHITE, "White has more time on timer", None)
    ELSE IF seconds_left(bt, t) > seconds_left(wt, t)
    THEN Outcome(BLACK, "Black has more time on timer", None)
    ELSE IF time_clocked(wt, t) < time_clocked(bt, t)
    THEN Outcome(WHITE, "White has spent less time computing", None)
    ELSE IF time_clocked(bt, t) < time_clocked(wt, t)
    THEN Outcome(BLACK, "Black has spent less time computing", None)
    ELSE Outcome(None, "Total tie", None)

\* ------------------------------------------------------------------- state
VARIABLES
    board,          \* BaseGame._board
    white_timer,    \* BaseGame.white_timer
    black_timer,    \* BaseGame.black_timer
    elapsed_times,  \* the _elapsed_times list; copy.copy(base_timer) is shallow,
                    \* so both timers hold the one list of the base timer
    result,         \* BaseGame._result and the GameResult's _color, _reason, ...
    queue,          \* BaseGame._queue = mp.Queue(maxsize=1)
    ai_thread,      \* BaseGame._ai_thread: None or the Process handle
    workers,        \* the live worker processes, each with its own board
    pc,             \* where play_game is: "loop", "body", "done", "error"
    now,            \* time.perf_counter()
    launched,       \* how many workers play_game has started
    received,       \* how many moves play_game has taken out of the queue
    read,           \* what the last read of result.color / .reason returned
    game_records,   \* MatchRecord.game_records: the winner of each recorded game
    wins_required,  \* MatchRecord.wins_required
    abandoned,      \* workers of earlier games of the match, each with the
                    \* queue of the game that launched it
    returned,       \* the outcome of the last call made on a clock or a record
    moves           \* GameRecord.moves of the game record at hand

\* The state of the match around a game, and of a caller of clock methods.
other_vars == <<game_records, wins_required, abandoned, returned, moves>>

vars == <<board, white_timer, black_timer, elapsed_times, result, queue,
          ai_thread, workers, pc, now, launched, received, read, other_vars>>

\* GameResult.__init__: the result refers to the game's board and timers and
\* holds the illegal move; _color, _reason and _short_reason start as None.
GameResult(im) ==
    [set |-> TRUE, illegal_move |-> im,
     color |-> None, reason |-> None, short_reason |-> None]

\* BaseGame._result = None
NoResult ==
    [set |-> FALSE, illegal_move |-> NoIllegalMove,
     color |-> None, reason |-> None, short_reason |-> None]

\* The timers a game can be configured with (BronsteinDelayTimer cannot be
\* constructed: its __init__ calls BaseTimer.__init__ without increment_seconds).
BaseTimers ==
    {BasicTimer} \cup
    {IncrementTimer(s, i) : s \in 0..MaxStart, i \in 0..MaxIncrement}

timer_of(c) == IF c = WHITE THEN white_timer ELSE black_timer

\* The _elapsed_times of a clock of the game (owner WHITE or BLACK) and of the
\* configured timer (owner "base_timer"): copy.copy(base_timer) copies the
\* object's fields one level deep, so all three hold the same list object.
elapsed_times_of(owner) == elapsed_times

\* BaseGame.__init__
Init ==
    /\ \E base_timer \in BaseTimers :
        /\ white_timer = base_timer
        /\ black_timer = base_timer
    /\ elapsed_times = <<>>
    /\ board = NewBoard
    /\ result = NoResult
    /\ queue = <<>>
    /\ ai_thread = None
    /\ workers = <<>>
    /\ pc = "loop"
    /\ now = 0
    /\ launched = 0
    /\ received = 0
    /\ read = None
    /\ game_records = <<>>
    /\ wins_required = 1
    /\ abandoned = <<>>
    /\ returned = NoCall
    /\ moves = <<>>

\* A liveness test of the game that looks at the board alone.
game_alive_board_only == ~is_game_over(board)

\* A liveness test of the game that looks at the board and White's clock.
game_alive_white_clock ==
    /\ ~is_game_over(board)
    /\ alive(white_timer, now)

\* BaseGame._game_alive
game_alive ==
    /\ ~is_game_over(board)
    /\ alive(white_timer, now)
    /\ alive(black_timer, now)

\* play_game: the test of `while self._game_alive`; when it fails the loop is
\* left and the result is recorded without an illegal move.
CheckAlive ==
    /\ pc = "loop"
    /\ IF game_alive
       THEN /\ pc' = "body"
            /\ UNCHANGED result
       ELSE /\ pc' = "done"
            /\ result' = GameResult(NoIllegalMove)
    /\ UNCHANGED <<other_vars, board, white_timer, black_timer, elapsed_times, queue,
                   ai_thread, workers, now, launched, received, read>>

\* A worker process as mp.Process starts it: the arguments are copied into the
\* child, so the worker holds its own board.
Worker(c, b) == [state |-> "computing", ai |-> c, board |-> b]

\* play_game: `if self._ai_thread is None`: start the clock of the side to
\* move and launch a worker process on the strategy ai.
DispatchOf(ai) ==
    /\ pc = "body"
    /\ ai_thread = None
    /\ IF running(timer_of(board.turn))
       THEN \* TimerError("Timer is already running") leaves play_game
            /\ pc' = "error"
            /\ UNCHANGED <<white_timer, black_timer, ai_thread, workers, launched>>
       ELSE /\ IF board.turn = WHITE
               THEN /\ white_timer' = start(white_timer, now)
                    /\ UNCHANGED black_timer
               ELSE /\ black_timer' = start(black_timer, now)
                    /\ UNCHANGED white_timer
            /\ ai_thread' = "Process"
            /\ workers' = Append(workers, Worker(ai, board))
            /\ launched' = launched + 1
            /\ pc' = "loop"
    /\ UNCHANGED <<other_vars, board, elapsed_times, result, queue, now, received, read>>

\* A dispatch that hands every turn to white_ai.
DispatchWhiteAi == DispatchOf(WHITE)

\* play_game: white_ai is launched on White's turn, black_ai on Black's.
Dispatch == DispatchOf(board.turn)

\* play_game: `elif self._queue.full()`: stop the clock of the side to move,
\* take the move (the queue is left as rest), drop the handle, and push the
\* move if it is legal; an illegal move raises IllegalMove, which the except
\* clause turns into the result.
ReceiveLeaving(rest) ==
    /\ pc = "body"
    /\ ai_thread # None
    /\ Len(queue) >= 1
    /\ IF ~running(timer_of(board.turn))
       THEN \* TimerError("Timer is not running") leaves play_game
            /\ pc' = "error"
            /\ UNCHANGED <<board, white_timer, black_timer, elapsed_times, result,
                           queue, ai_thread, received>>
       ELSE /\ IF board.turn = WHITE
               THEN /\ white_timer' = stop(white_timer, now)
                    /\ UNCHANGED black_timer
               ELSE /\ black_timer' = stop(black_timer, now)
                    /\ UNCHANGED white_timer
            /\ elapsed_times' =
                   Append(elapsed_times, elapsed_seconds(timer_of(board.turn), now))
            /\ queue' = rest
            /\ received' = received + 1
            /\ ai_thread' = None
            /\ IF ~is_legal(board, Head(queue))
               THEN /\ result' = GameResult(IllegalMove(Head(queue)))
                    /\ pc' = "done"
                    /\ UNCHANGED board
               ELSE /\ board' = push(board, Head(queue))
                    /\ pc' = "loop"
                    /\ UNCHANGED result
    /\ UNCHANGED <<other_vars, workers, now, launched, read>>

\* A receive that reads the move and leaves it in the queue.
ReceivePeek == ReceiveLeaving(queue)

\* play_game: `move = self._queue.get()` empties the one slot.
Receive == ReceiveLeaving(Tail(queue))

\* play_game: a worker is out and the queue is not full: nothing but _display().
Wait ==
    /\ pc = "body"
    /\ ai_thread # None
    /\ Len(queue) < 1
    /\ pc' = "loop"
    /\ UNCHANGED <<other_vars, board, white_timer, black_timer, elapsed_times, result, queue,
                   ai_thread, workers, now, launched, received, read>>

RemoveAt(s, i) == SubSeq(s, 1, i - 1) \o SubSeq(s, i + 1, Len(s))

\* A worker that pushes on the board of the game itself, as a thread handed
\* self._board would.
WorkerPushShared ==
    \E i \in 1..Len(workers) :
        /\ workers[i].state = "computing"
        /\ Len(workers[i].board.move_stack) < Len(board.move_stack) + WorkerDepth
        /\ workers' = [workers EXCEPT ![i].board =
               push(@, MoveOf(workers[i].board.turn, "quiet"))]
        /\ board' = push(board, MoveOf(board.turn, "quiet"))
        /\ UNCHANGED <<other_vars, white_timer, black_timer, elapsed_times, result,
                       queue, ai_thread, pc, now, launched, received, read>>

\* ai.make_move(board, timer) at work: the strategy tries a move on the board
\* it was given ...
WorkerPush ==
    \E i \in 1..Len(workers) :
        /\ workers[i].state = "computing"
        /\ Len(workers[i].board.move_stack) < Len(board.move_stack) + WorkerDepth
        /\ workers' = [workers EXCEPT ![i].board =
               push(@, MoveOf(workers[i].board.turn, "quiet"))]
        /\ UNCHANGED <<other_vars, board, white_timer, black_timer, elapsed_times, result,
                       queue, ai_thread, pc, now, launched, received, read>>

\* ... and takes a move back.
WorkerPop ==
    \E i \in 1..Len(workers) :
        /\ workers[i].state = "computing"
        /\ Len(workers[i].board.move_stack) > 0
        /\ workers' = [workers EXCEPT ![i].board = pop(@)]
        /\ UNCHANGED <<other_vars, board, white_timer, black_timer, elapsed_times, result,
                       queue, ai_thread, pc, now, launched, received, read>>

\* _ai_thread_method: make_move returned a move (of any kind) and queue.put
\* stores it; put blocks while the one slot is taken.  The process then ends.
WorkerPut ==
    \E i \in 1..Len(workers), k \in MoveKinds :
        /\ workers[i].state = "computing"
        /\ Len(queue) < 1
        /\ queue' = Append(queue, MoveOf(workers[i].ai, k))
        /\ workers' = RemoveAt(workers, i)
        /\ UNCHANGED <<other_vars, board, white_timer, black_timer, elapsed_times, result,
                       ai_thread, pc, now, launched, received, read>>

\* make_move never returns (an endless loop, a crash of the process): the
\* worker delivers nothing from here on.
WorkerHang ==
    \E i \in 1..Len(workers) :
        /\ workers[i].state = "computing"
        /\ workers' = [workers EXCEPT ![i].state = "hung"]
        /\ UNCHANGED <<other_vars, board, white_timer, black_timer, elapsed_times, result,
                       queue, ai_thread, pc, now, launched, received, read>>

\* A running clock may go on: perf_counter() advances by one tick.  Time that
\* passes while no clock runs changes no value the program reads, so it is
\* not counted.
MayTick(tm) ==
    /\ running(tm)
    /\ IF tm.seconds_left = Inf
       THEN elapsed_seconds(tm, now) < MaxElapsed
       ELSE seconds_left(tm, now) > 0 - MaxOvershoot

Tick ==
    /\ pc # "error"
    /\ MayTick(white_timer) \/ MayTick(black_timer)
    /\ now' = now + 1
    /\ UNCHANGED <<other_vars, board, white_timer, black_timer, elapsed_times, result, queue,
                   ai_thread, workers, pc, launched, received, read>>

\* game/base.py GameResult.color: computed on the first read, from the board
\* and the timers as they are at that moment, and kept unless it is None.
BaseReadColor ==
    /\ pc = "done"
    /\ result.set
    /\ LET o == IF result.color = None
                THEN base_determine_winner(board, white_timer, black_timer,
                                           result.illegal_move, now)
                ELSE Outcome(result.color, result.reason, None)
       IN  IF o.raised # None
           THEN /\ read' = o.raised
                /\ UNCHANGED result
           ELSE /\ read' = o.color
                /\ result' = [result EXCEPT !.color = o.color, !.reason = o.reason]
    /\ UNCHANGED <<other_vars, board, white_timer, black_timer, elapsed_times, queue,
                   ai_thread, workers, pc, now, launched, received>>

\* game/base.py GameResult.reason
BaseReadReason ==
    /\ pc = "done"
    /\ result.set
    /\ LET o == IF result.reason = None
                THEN base_determine_winner(board, white_timer, black_timer,
                                           result.illegal_move, now)
                ELSE Outcome(result.color, result.reason, None)
       IN  IF o.raised # None
           THEN /\ read' = o.raised
                /\ UNCHANGED result
           ELSE /\ read' = o.reason
                /\ result' = [result EXCEPT !.color = o.color, !.reason = o.reason]
    /\ UNCHANGED <<other_vars, board, white_timer, black_timer, elapsed_times, queue,
                   ai_thread, workers, pc, now, launched, received>>

\* A play_game that plays the game again from the test of the loop.
PlayGameAgainReplay ==
    /\ pc = "done"
    /\ result.set
    /\ pc' = "loop"
    /\ result' = NoResult
    /\ returned' = ReturnedNone("play_game")
    /\ UNCHANGED <<moves, game_records, wins_required, abandoned, board, white_timer,
                   black_timer, elapsed_times, queue, ai_thread, workers, now,
                   launched, received, read>>

\* play_game called on a game that has been played: `if self._result is not
\* None: return self._result`.
PlayGameAgain ==
    /\ pc = "done"
    /\ result.set
    /\ returned' = Returned("play_game", result)
    /\ UNCHANGED <<moves, game_records, wins_required, abandoned, board, white_timer,
                   black_timer, elapsed_times, result, queue, ai_thread, workers,
                   pc, now, launched, received, read>>

\* BaseGame.result read after the game: _result is not None, so it is returned
\* without a call of play_game.
ReadResult ==
    /\ pc = "done"
    /\ result.set
    /\ returned' = Returned("result", result)
    /\ UNCHANGED <<moves, game_records, wins_required, abandoned, board, white_timer,
                   black_timer, elapsed_times, result, queue, ai_thread, workers,
                   pc, now, launched, received, read>>

Next ==
    \/ CheckAlive
    \/ Dispatch
    \/ Receive
    \/ Wait
    \/ WorkerPush
    \/ WorkerPop
    \/ WorkerPut
    \/ WorkerHang
    \/ Tick
    \/ BaseReadColor
    \/ BaseReadReason
    \/ PlayGameAgain
    \/ ReadResult

Spec == Init /\ [][Next]_vars

\* play_game is straight-line code run by the calling thread, which keeps
\* running, and perf_counter() keeps advancing; a worker and a reader of the
\* result are under no such obligation.
FairSpec ==
    /\ Spec
    /\ WF_vars(CheckAlive)
    /\ WF_vars(Dispatch)
    /\ WF_vars(Receive)
    /\ WF_vars(Wait)
    /\ WF_vars(Tick)

\* ------------------------------------------- the adjudicator on its own
\* records/result.py GameResult, built by its constructor (as from_dict and a
\* finished game do) on any board, any two timers and an optional illegal move.

\* The largest _time_clocked of a timer handed to the adjudicator.
MaxClocked == 2

\* Boards of up to two plies, ending in a move of any legal kind.
AdjBoards ==
    {NewBoard}
    \cup {push(NewBoard, MoveOf(WHITE, k)) : k \in MoveKinds \ {"bad"}}
    \cup {push(push(NewBoard, MoveOf(WHITE, "quiet")), MoveOf(BLACK, k)) :
              k \in MoveKinds \ {"bad"}}

\* Timers in any state a game or from_dict can leave them in: expired by up to
\* MaxOvershoot, with any time clocked, stopped or started at instant 0.
AdjTimers ==
    {[class |-> "IncrementTimer", start_seconds |-> MaxStart, seconds_left |-> s,
      start_time |-> st, time_clocked |-> c, increment_seconds |-> 0] :
         s \in (0 - MaxOvershoot)..MaxStart, st \in {NoStart, 0}, c \in 0..MaxClocked}
    \cup
    {[class |-> "BasicTimer", start_seconds |-> Inf, seconds_left |-> Inf,
      start_time |-> st, time_clocked |-> c, increment_seconds |-> 0] :
         st \in {NoStart, 0}, c \in 0..MaxClocked}

AdjInit ==
    /\ board \in AdjBoards
    /\ white_timer \in AdjTimers
    /\ black_timer \in AdjTimers
    /\ white_timer.class = black_timer.class
    \* only the clock of the side to move can have been left running
    /\ running(white_timer) => board.turn = WHITE
    /\ running(black_timer) => board.turn = BLACK
    /\ \E im \in {NoIllegalMove, IllegalMove(MoveOf(board.turn, "bad"))} :
           result = GameResult(im)
    /\ elapsed_times = <<>>
    /\ queue = <<>>
    /\ ai_thread = None
    /\ workers = <<>>
    /\ pc = "done"
    /\ now = 0
    /\ launched = 0
    /\ received = 0
    /\ read = None
    /\ game_records = <<>>
    /\ wins_required = 1
    /\ abandoned = <<>>
    /\ returned = NoCall
    /\ moves = <<>>

\* What a property of records/result.py GameResult returns and caches when
\* the field it guards (cached) is None, else the cached fields.
Determined(cached) ==
    IF cached = None
    THEN determine_winner(board, white_timer, black_timer, result.illegal_move, now)
    ELSE Outcome(result.color, result.reason, result.short_reason)

Cache(o) ==
    [result EXCEPT !.color = o.color, !.reason = o.reason,
                   !.short_reason = o.short_reason]

\* A colour read that also stops whichever clock was left running.
ReadColorStopping ==
    /\ pc = "done"
    /\ result.set
    /\ read' = Determined(result.color).color
    /\ white_timer' = IF running(white_timer) THEN stop(white_timer, now)
                                              ELSE white_timer
    /\ black_timer' = IF running(black_timer) THEN stop(black_timer, now)
                                              ELSE black_timer
    /\ UNCHANGED <<other_vars, board, elapsed_times, result, queue, ai_thread,
                   workers, pc, now, launched, received>>

\* records/result.py GameResult.color
ReadColor ==
    /\ pc = "done"
    /\ result.set
    /\ LET o == Determined(result.color)
       IN  IF o.raised # None
           THEN /\ read' = o.raised
                /\ UNCHANGED result
           ELSE /\ read' = o.color
                /\ result' = Cache(o)
    /\ UNCHANGED <<other_vars, board, white_timer, black_timer, elapsed_times, queue,
                   ai_thread, workers, pc, now, launched, received>>

\* records/result.py GameResult.reason
ReadReason ==
    /\ pc = "done"
    /\ result.set
    /\ LET o == Determined(result.reason)
       IN  IF o.raised # None
           THEN /\ read' = o.raised
                /\ UNCHANGED result
           ELSE /\ read' = o.reason
                /\ result' = Cache(o)
    /\ UNCHANGED <<other_vars, board, white_timer, black_timer, elapsed_times, queue,
                   ai_thread, workers, pc, now, launched, received>>

\* records/result.py GameResult.short_reason
ReadShortReason ==
    /\ pc = "done"
    /\ result.set
    /\ LET o == Determined(result.short_reason)
       IN  IF o.raised # None
           THEN /\ read' = o.raised
                /\ UNCHANGED result
           ELSE /\ read' = o.short_reason
                /\ result' = Cache(o)
    /\ UNCHANGED <<other_vars, board, white_timer, black_timer, elapsed_times, queue,
                   ai_thread, workers, pc, now, launched, received>>

AdjNext ==
    \/ ReadColor
    \/ ReadReason
    \/ ReadShortReason
    \/ Tick

AdjSpec == AdjInit /\ [][AdjNext]_vars

\* --------------------------------------- a game and its recorded result
\* A game played by play_game whose result is a records/result.py GameResult,
\* read by its owner any number of times after the game.

RecNext ==
    \/ CheckAlive
    \/ Dispatch
    \/ Receive
    \/ Wait
    \/ WorkerPut
    \/ WorkerHang
    \/ Tick
    \/ ReadColor
    \/ ReadReason
    \/ ReadShortReason

RecSpec == Init /\ [][RecNext]_vars

\* ------------------------------------------------- a clock on its own
\* One timer object (held in white_timer, its history list in elapsed_times)
\* and a caller that starts, stops and reads it in any order, while
\* perf_counter() advances.

\* The most successful stops of the clock.
MaxStops == 2

TimerError == "TimerError"

\* The kinds of clock, as constructed.
Timers ==
    {BasicTimer}
    \cup {IncrementTimer(s, i) : s \in 0..MaxStart, i \in 0..MaxIncrement}
    \cup {BronsteinDelayTimer(s, i) : s \in 0..MaxStart, i \in 0..MaxIncrement}

TimerInit ==
    /\ white_timer \in Timers
    /\ black_timer = white_timer
    /\ elapsed_times = <<>>
    /\ board = NewBoard
    /\ result = NoResult
    /\ queue = <<>>
    /\ ai_thread = None
    /\ workers = <<>>
    /\ pc = "timer"
    /\ now = 0
    /\ launched = 0
    /\ received = 0
    /\ read = None
    /\ game_records = <<>>
    /\ wins_required = 1
    /\ abandoned = <<>>
    /\ returned = NoCall
    /\ moves = <<>>

\* A start() that restarts a running clock from the present instant.
TimerStartRestarting ==
    /\ pc = "timer"
    /\ white_timer' = start(white_timer, now)
    /\ returned' = ReturnedNone("start")
    /\ UNCHANGED <<moves, game_records, wins_required, abandoned, board, black_timer,
                   elapsed_times, result, queue, ai_thread, workers, pc, now,
                   launched, received, read>>

\* BaseTimer.start
TimerStart ==
    /\ pc = "timer"
    /\ IF running(white_timer)
       THEN /\ returned' = Failed("start", TimerError)
            /\ UNCHANGED white_timer
       ELSE /\ white_timer' = start(white_timer, now)
            /\ returned' = ReturnedNone("start")
    /\ UNCHANGED <<moves, game_records, wins_required, abandoned, board, black_timer,
                   elapsed_times, result, queue, ai_thread, workers, pc, now,
                   launched, received, read>>

\* A stop() that keeps no history of the elapsed times.
TimerStopNoHistory ==
    /\ pc = "timer"
    /\ IF ~running(white_timer)
       THEN /\ returned' = Failed("stop", TimerError)
            /\ UNCHANGED white_timer
       ELSE /\ white_timer' = stop(white_timer, now)
            /\ returned' = stop_returns(white_timer, now)
    /\ UNCHANGED <<moves, game_records, wins_required, abandoned, board, black_timer,
                   elapsed_times, result, queue, ai_thread, workers, pc, now,
                   launched, received, read>>

\* stop() of the clock's class: BaseTimer.stop raises on a clock that is not
\* running, else commits the elapsed time and appends it to the history; the
\* subclass then adds its refund.
TimerStop ==
    /\ pc = "timer"
    /\ IF ~running(white_timer)
       THEN /\ returned' = Failed("stop", TimerError)
            /\ UNCHANGED <<white_timer, elapsed_times>>
       ELSE /\ Len(elapsed_times) < MaxStops
            /\ white_timer' = stop(white_timer, now)
            /\ elapsed_times' = Append(elapsed_times, elapsed_seconds(white_timer, now))
            /\ returned' = stop_returns(white_timer, now)
    /\ UNCHANGED <<moves, game_records, wins_required, abandoned, board, black_timer,
                   result, queue, ai_thread, workers, pc, now, launched,
                   received, read>>

\* A read of seconds_left that commits the elapsed time to the clock.
ReadSecondsLeftCommitting ==
    /\ pc = "timer"
    /\ returned' = Returned("seconds_left", seconds_left(white_timer, now))
    /\ white_timer' =
           IF running(white_timer)
           THEN [white_timer EXCEPT !.seconds_left = seconds_left(white_timer, now),
                                    !.start_time = now]
           ELSE white_timer
    /\ UNCHANGED <<moves, game_records, wins_required, abandoned, board, black_timer,
                   elapsed_times, result, queue, ai_thread, workers, pc, now,
                   launched, received, read>>

\* BaseTimer.seconds_left read by the caller
ReadSecondsLeft ==
    /\ pc = "timer"
    /\ returned' = Returned("seconds_left", seconds_left(white_timer, now))
    /\ UNCHANGED <<moves, game_records, wins_required, abandoned, board, white_timer,
                   black_timer, elapsed_times, result, queue, ai_thread, workers,
                   pc, now, launched, received, read>>

\* BaseTimer.alive read by the caller
ReadAlive ==
    /\ pc = "timer"
    /\ returned' = Returned("alive", alive(white_timer, now))
    /\ UNCHANGED <<moves, game_records, wins_required, abandoned, board, white_timer,
                   black_timer, elapsed_times, result, queue, ai_thread, workers,
                   pc, now, launched, received, read>>

\* display_time() called by the caller
ReadDisplayTime ==
    /\ pc = "timer"
    /\ returned' = Returned("display_time", display_time(white_timer, now))
    /\ UNCHANGED <<moves, game_records, wins_required, abandoned, board, white_timer,
                   black_timer, elapsed_times, result, queue, ai_thread, workers,
                   pc, now, launched, received, read>>

\* to_dict() called by the caller
TimerToDict ==
    /\ pc = "timer"
    /\ returned' = Returned("to_dict", timer_to_dict(white_timer, elapsed_times))
    /\ UNCHANGED <<moves, game_records, wins_required, abandoned, board, white_timer,
                   black_timer, elapsed_times, result, queue, ai_thread, workers,
                   pc, now, launched, received, read>>

\* timers[d['class']].from_dict(d) on the dictionary of the clock, as
\* GameResult.from_dict rebuilds a clock: the rebuilt clock and its history,
\* or the exception.
TimerFromDict ==
    /\ pc = "timer"
    /\ LET rebuilt == timer_from_dict(timer_to_dict(white_timer, elapsed_times))
       IN  returned' =
               IF rebuilt.raised # None
               THEN Failed("from_dict", rebuilt.raised)
               ELSE Returned("from_dict", [timer |-> rebuilt.timer,
                                           elapsed_times |-> rebuilt.elapsed_times])
    /\ UNCHANGED <<moves, game_records, wins_required, abandoned, board, white_timer,
                   black_timer, elapsed_times, result, queue, ai_thread, workers,
                   pc, now, launched, received, read>>

TimerNext ==
    \/ TimerStart
    \/ TimerStop
    \/ Tick
    \/ ReadSecondsLeft
    \/ ReadAlive
    \/ ReadDisplayTime
    \/ TimerToDict
    \/ TimerFromDict

TimerSpec == TimerInit /\ [][TimerNext]_vars

\* ------------------------------------------------------------- the match
\* BaseMatch.play_match: games are created and played one after another until
\* a side has the wins required.

\* The largest wins_required of a match, and the most games recorded.
MaxWins == 2
MaxGames == 2

\* BaseMatch.__init__, and the first game made by play_match.
MatchInit ==
    /\ \E base_timer \in BaseTimers :
        /\ white_timer = base_timer
        /\ black_timer = base_timer
    /\ elapsed_times = <<>>
    /\ board = NewBoard
    /\ result = NoResult
    /\ queue = <<>>
    /\ ai_thread = None
    /\ workers = <<>>
    /\ pc = "loop"
    /\ now = 0
    /\ launched = 0
    /\ received = 0
    /\ read = None
    /\ game_records = <<>>
    /\ wins_required \in 1..MaxWins
    /\ abandoned = <<>>
    /\ returned = NoCall
    /\ moves = <<>>

\* The record of the finished game as the match counts it: the outcome its
\* GameResult yields when MatchRecord reads result.color.
game_record ==
    determine_winner(board, white_timer, black_timer, result.illegal_move, now)

RECURSIVE count_wins_ties(_, _)
\* A count of wins that gives a game without a winner to both sides.
count_wins_ties(records, color) ==
    IF records = <<>>
    THEN 0
    ELSE (IF Head(records).color \in {color, None} THEN 1 ELSE 0)
         + count_wins_ties(Tail(records), color)

RECURSIVE count_wins(_, _)
\* MatchRecord._count_wins
count_wins(records, color) ==
    IF records = <<>>
    THEN 0
    ELSE (IF Head(records).color = color THEN 1 ELSE 0)
         + count_wins(Tail(records), color)

\* A winner that is declared one win after the threshold.
winner_late(records) ==
    IF count_wins(records, WHITE) > wins_required THEN WHITE
    ELSE IF count_wins(records, BLACK) > wins_required THEN BLACK
    ELSE None

\* MatchRecord.winner
winner(records) ==
    IF count_wins(records, WHITE) >= wins_required THEN WHITE
    ELSE IF count_wins(records, BLACK) >= wins_required THEN BLACK
    ELSE None

\* A count of expected games that leaves out the deciding game of each side.
expected_number_of_match_short == wins_required * 2 - 2

\* MatchRecord.expected_number_of_match
expected_number_of_match ==
    IF wins_required = 1 THEN 1 ELSE wins_required * 2 + 1

\* The workers a finished game leaves behind, each with the queue of its game.
Abandon(ws, q) ==
    [i \in 1..Len(ws) |-> [ai |-> ws[i].ai, state |-> ws[i].state, queue |-> q]]

\* play_match, from the return of play_game to the start of the next one:
\* the record of the game is appended, the wins are counted, and while there
\* is no winner _create_game makes the next game (BaseGame.__init__: own
\* board, own copies of the base timer, own queue, no handle).  q and ws are
\* the queue and the workers the next game starts with, ab the workers left
\* to themselves.
NextGameWith(q, ws, ab) ==
    /\ pc = "done"
    /\ result.set
    /\ Len(game_records) < MaxGames
    /\ game_records' = Append(game_records, game_record)
    /\ IF game_record.raised # None
       THEN \* the test of the loop counts the wins, which reads
            \* result.color, which raises
            /\ pc' = "error"
            /\ read' = game_record.raised
            /\ UNCHANGED <<abandoned, board, white_timer,
                           black_timer, elapsed_times, result, queue, ai_thread,
                           workers, now, launched, received>>
       ELSE /\ IF winner(game_records') # None
               THEN /\ pc' = "match_done"
                    /\ read' = winner(game_records')
                    /\ UNCHANGED <<abandoned, board, white_timer, black_timer,
                                   elapsed_times, result, queue, ai_thread,
                                   workers, now, launched, received>>
               ELSE /\ pc' = "loop"
                    /\ \E base_timer \in {BaseTimer(white_timer.class,
                                                     white_timer.start_seconds,
                                                     white_timer.increment_seconds)} :
                           /\ white_timer' = base_timer
                           /\ black_timer' = base_timer
                    /\ board' = NewBoard
                    /\ result' = NoResult
                    /\ queue' = q
                    /\ ai_thread' = None
                    /\ workers' = ws
                    /\ abandoned' = ab
                    /\ launched' = 0
                    /\ received' = 0
                    \* no clock of the new game runs: instants are counted
                    \* from its creation
                    /\ now' = 0
                    \* the history list is shared with base_timer and goes
                    \* on growing from game to game; nothing in a game or a
                    \* match reads it, and only the entries of the game at
                    \* hand are kept here
                    /\ elapsed_times' = <<>>
                    /\ UNCHANGED read
    /\ UNCHANGED <<wins_required, returned, moves>>

\* A next game that goes on with the queue and the workers of the last one.
NextGameSharedQueue == NextGameWith(queue, workers, abandoned)

NextGame == NextGameWith(<<>>, <<>>, abandoned \o Abandon(workers, queue))

\* _ai_thread_method of a worker whose game is over: make_move returns and
\* queue.put stores the move in the queue of that game.
AbandonedPut ==
    \E i \in 1..Len(abandoned), k \in MoveKinds :
        /\ abandoned[i].state = "computing"
        /\ Len(abandoned[i].queue) < 1
        /\ abandoned' = [abandoned EXCEPT
               ![i].queue = Append(@, MoveOf(abandoned[i].ai, k)),
               ![i].state = "exited"]
        /\ UNCHANGED <<moves, game_records, wins_required, returned, board, white_timer,
                       black_timer, elapsed_times, result, queue, ai_thread,
                       workers, pc, now, launched, received, read>>

\* A play_match that plays one more game when called on a decided match.
PlayMatchAgainReplay ==
    /\ pc = "match_done"
    /\ pc' = "loop"
    /\ board' = NewBoard
    /\ result' = NoResult
    /\ launched' = 0
    /\ received' = 0
    /\ returned' = ReturnedNone("play_match")
    /\ UNCHANGED <<moves, game_records, wins_required, abandoned, white_timer,
                   black_timer, elapsed_times, queue, ai_thread, workers, now,
                   read>>

\* play_match called on a match that has a winner: `if self._record.winner is
\* not None: return self._record.winner`.
PlayMatchAgain ==
    /\ pc = "match_done"
    /\ returned' = Returned("play_match", winner(game_records))
    /\ UNCHANGED <<moves, game_records, wins_required, abandoned, board,
                   white_timer, black_timer, elapsed_times, result, queue,
                   ai_thread, workers, pc, now, launched, received, read>>

MatchNext ==
    \/ CheckAlive
    \/ Dispatch
    \/ Receive
    \/ Wait
    \/ WorkerPut
    \/ WorkerHang
    \/ Tick
    \/ NextGame
    \/ AbandonedPut
    \/ PlayMatchAgain

MatchSpec == MatchInit /\ [][MatchNext]_vars

\* ------------------------------------------------ a match record on its own
\* One MatchRecord and a caller that appends game records of any kind, reads
\* the counts and the winner, and rebuilds the record with from_dict.

\* The most game records appended to the match record.
MaxRecords == 3

ValueError == "ValueError"

\* A GameRecord whose result is None: there is nothing to read.
ResultNone == Outcome(None, None, None)

\* The game records a caller can hand to append, by what their result yields
\* when its colour is read: a win of either side, a tie, the AttributeError
\* of a game ended by an illegal move, or no result at all.
GameRecords ==
    {Outcome(c, "checkmate", "checkmate") : c \in COLORS}
    \cup {Outcome(None, "total tie", "total tie"), Raised(AttributeError), ResultNone}

MatchRecordInit ==
    /\ game_records = <<>>
    /\ wins_required \in 1..MaxWins
    /\ abandoned = <<>>
    /\ returned = NoCall
    /\ moves = <<>>
    /\ \E base_timer \in {BasicTimer} :
        /\ white_timer = base_timer
        /\ black_timer = base_timer
    /\ elapsed_times = <<>>
    /\ board = NewBoard
    /\ result = NoResult
    /\ queue = <<>>
    /\ ai_thread = None
    /\ workers = <<>>
    /\ pc = "record"
    /\ now = 0
    /\ launched = 0
    /\ received = 0
    /\ read = None

RecordFrame ==
    UNCHANGED <<wins_required, abandoned, moves, board, white_timer, black_timer,
                elapsed_times, result, queue, ai_thread, workers, pc, now,
                launched, received, read>>

\* An append that takes a game record without a result.
MatchRecordAppendAny ==
    /\ pc = "record"
    /\ \E gr \in GameRecords :
           /\ Len(game_records) < MaxRecords
           /\ game_records' = Append(game_records, gr)
           /\ returned' = ReturnedNone("append")
    /\ RecordFrame

\* MatchRecord.append: ValueError for a game record whose result is None,
\* else the record is added to the list.
MatchRecordAppend ==
    /\ pc = "record"
    /\ \E gr \in GameRecords :
           IF gr = ResultNone
           THEN /\ returned' = Failed("append", ValueError)
                /\ UNCHANGED game_records
           ELSE /\ Len(game_records) < MaxRecords
                /\ game_records' = Append(game_records, gr)
                /\ returned' = ReturnedNone("append")
    /\ RecordFrame

\* A read of result.color of one of the records raises.
CountRaises(records) == \E i \in 1..Len(records) : records[i].raised # None

wins_of(color) == IF color = WHITE THEN "white_wins" ELSE "black_wins"

\* MatchRecord.white_wins, black_wins and winner read by the caller; each
\* goes through _count_wins, which reads the colour of every record.
ReadWins ==
    /\ pc = "record"
    /\ \E color \in COLORS :
           returned' = IF CountRaises(game_records)
                       THEN Failed(wins_of(color), AttributeError)
                       ELSE Returned(wins_of(color), count_wins(game_records, color))
    /\ UNCHANGED game_records
    /\ RecordFrame

ReadWinner ==
    /\ pc = "record"
    /\ returned' = IF CountRaises(game_records)
                   THEN Failed("winner", AttributeError)
                   ELSE Returned("winner", winner(game_records))
    /\ UNCHANGED game_records
    /\ RecordFrame

\* The lists of game records a "game_records" entry of a dictionary can hold.
GameRecordLists ==
    {<<>>} \cup {<<a>> : a \in GameRecords}
    \cup {<<a, b>> : a \in GameRecords, b \in GameRecords}

RECURSIVE AllAppended(_)
\* from_dict's loop of append: the first record without a result raises.
AllAppended(records) ==
    IF records = <<>> THEN TRUE
    ELSE Head(records) # ResultNone /\ AllAppended(Tail(records))

\* MatchRecord.from_dict: a new MatchRecord, filled by append record by
\* record; when an append raises, no MatchRecord is returned and the one at
\* hand stays.
MatchRecordFromDict ==
    /\ pc = "record"
    /\ \E d \in GameRecordLists :
           IF AllAppended(d)
           THEN /\ game_records' = d
                /\ returned' = ReturnedNone("from_dict")
           ELSE /\ returned' = Failed("from_dict", ValueError)
                /\ UNCHANGED game_records
    /\ RecordFrame

MatchRecordNext ==
    \/ MatchRecordAppend
    \/ ReadWins
    \/ ReadWinner
    \/ MatchRecordFromDict

MatchRecordSpec == MatchRecordInit /\ [][MatchRecordNext]_vars

\* ------------------------------------------------- a game record on its own
\* One GameRecord: moves are appended, the result is set (a GameResult on the
\* last board and two timers), and the record is serialized and rebuilt.

\* Move.time_used of the first entry of a record (None).
NoTime == -1

\* records/move.py Move(move, color, time_used, board); the board is deep-copied.
Move(m, c, time_used, b) == [move |-> m, color |-> c, time_used |-> time_used, board |-> b]

\* GameRecord.__init__: the first entry records the initial position.
FirstMove == Move(NoMove, None, NoTime, NewBoard)

\* Board.fen(): the side to move and the position, which the model holds as
\* the kinds of the moves that led to it; who made the moves is not in a FEN.
fen(b) ==
    [turn |-> b.turn,
     position |-> [i \in 1..Len(b.move_stack) |-> b.move_stack[i].kind]]

\* chess.Board(fen=...): the position and the side to move; the moves that
\* led to it stand for the position only and carry no mover.
board_of_fen(f) ==
    [turn |-> f.turn,
     move_stack |-> [i \in 1..Len(f.position) |-> MoveOf(None, f.position[i])]]

\* Move.uci() and chess.Move.from_uci: the squares of the move, not its mover.
uci(m) == m.kind
from_uci(u) == MoveOf(None, u)

\* Move.to_dict and Move.from_dict
move_to_dict(m) ==
    [move |-> IF m.move = NoMove THEN None ELSE uci(m.move),
     color |-> m.color,
     color_name |-> IF m.color = WHITE THEN "White" ELSE "Black",
     time_used |-> m.time_used,
     board |-> fen(m.board)]

move_from_dict(d) ==
    Move(IF d.move = None THEN NoMove ELSE from_uci(d.move), d.color,
         d.time_used, board_of_fen(d.board))

\* IllegalMove.to_dict / from_dict (absent: None)
illegal_move_to_dict(im, b) ==
    [present |-> im.present,
     board |-> IF im.present THEN fen(b) ELSE fen(NewBoard),
     move |-> IF im.present THEN uci(im.move) ELSE None]

illegal_move_from_dict(d) ==
    IF d.present THEN IllegalMove(from_uci(d.move)) ELSE NoIllegalMove

\* GameRecord.to_dict with a result whose colour, reason and short reason read
\* as outcome o: the moves, and the result's board, timers, illegal move and
\* outcome.
game_to_dict(ms, b, wd, bd, im, o) ==
    [initial_board_state |-> fen(ms[1].board),
     moves |-> [i \in 1..Len(ms) |-> move_to_dict(ms[i])],
     result |-> [board |-> fen(b),
                 white_timer |-> wd,
                 black_timer |-> bd,
                 illegal_move |-> illegal_move_to_dict(im, b),
                 color |-> o.color,
                 reason |-> o.reason,
                 short_reason |-> o.short_reason]]

\* to_dict(from_dict(d)) for the dictionary d of a finished game record, at
\* perf_counter() = t: GameRecord.from_dict rebuilds the moves, the board, the
\* timers and the illegal move; the rebuilt GameResult has no outcome cached,
\* so to_dict computes it from the rebuilt board and timers.
reserialized(d, t) ==
    LET w == timer_from_dict(d.result.white_timer)
        k == timer_from_dict(d.result.black_timer)
        rest == [i \in 1..Len(d.moves) - 1 |-> move_from_dict(d.moves[i + 1])]
        ms == <<Move(NoMove, None, NoTime, board_of_fen(d.initial_board_state))>>
              \o rest
        b == board_of_fen(d.result.board)
        im == illegal_move_from_dict(d.result.illegal_move)
    IN  IF w.raised # None THEN [raised |-> w.raised]
        ELSE IF k.raised # None THEN [raised |-> k.raised]
        ELSE LET o == determine_winner(b, w.timer, k.timer, im, t)
             IN  IF o.raised # None THEN [raised |-> o.raised]
                 ELSE [raised |-> None,
                       dict |-> game_to_dict(ms, b,
                                    timer_to_dict(w.timer, w.elapsed_times),
                                    timer_to_dict(k.timer, k.elapsed_times),
                                    im, o)]

\* The timers a result can refer to: stopped or started at instant 0, with
\* any seconds left and time clocked.
RecTimers ==
    {[class |-> "IncrementTimer", start_seconds |-> MaxStart, seconds_left |-> s,
      start_time |-> st, time_clocked |-> c, increment_seconds |-> 0] :
         s \in 0..MaxStart, st \in {NoStart, 0}, c \in {0, MaxClocked}}
    \cup
    {[class |-> "BasicTimer", start_seconds |-> Inf, seconds_left |-> Inf,
      start_time |-> NoStart, time_clocked |-> c, increment_seconds |-> 0] :
         c \in {0, MaxClocked}}

GameRecordInit ==
    /\ moves = <<FirstMove>>
    /\ result = NoResult
    /\ board = NewBoard
    /\ white_timer \in RecTimers
    /\ black_timer \in RecTimers
    /\ white_timer.class = black_timer.class
    /\ ~(running(white_timer) /\ running(black_timer))
    /\ elapsed_times \in {<<>>, <<MaxClocked>>}
    /\ queue = <<>>
    /\ ai_thread = None
    /\ workers = <<>>
    /\ pc = "game_record"
    /\ now = 0
    /\ launched = 0
    /\ received = 0
    /\ read = None
    /\ game_records = <<>>
    /\ wins_required = 1
    /\ abandoned = <<>>
    /\ returned = NoCall

\* The move a record of the live board is about: the last move pushed.
LastPushed == IF board.move_stack = <<>> THEN NoMove ELSE Last(board.move_stack)

\* A push on the live board that also reaches the record made from it (a Move
\* that keeps the board object it was given).
PushLiveAliased ==
    /\ pc = "game_record"
    /\ ~result.set
    /\ board = Last(moves).board
    /\ Len(board.move_stack) < MaxPly
    /\ \E k \in {"quiet", "mate"} : board' = push(board, MoveOf(board.turn, k))
    /\ moves' = [moves EXCEPT ![Len(moves)].board = board']
    /\ returned' = ReturnedNone("push")
    /\ UNCHANGED <<game_records, wins_required, abandoned, white_timer,
                   black_timer, elapsed_times, result, queue, ai_thread, workers,
                   pc, now, launched, received, read>>

\* The owner of the record pushes the next move on the live board, the board
\* object the last Move was created from.  Move.__init__ kept a deep copy, so
\* the push reaches no record.
PushLive ==
    /\ pc = "game_record"
    /\ ~result.set
    /\ board = Last(moves).board
    /\ Len(board.move_stack) < MaxPly
    /\ \E k \in {"quiet", "mate"} : board' = push(board, MoveOf(board.turn, k))
    /\ returned' = ReturnedNone("push")
    /\ UNCHANGED <<moves, game_records, wins_required, abandoned, white_timer,
                   black_timer, elapsed_times, result, queue, ai_thread, workers,
                   pc, now, launched, received, read>>

\* An append that takes a move whatever the result.
GameRecordAppendAlways ==
    /\ pc = "game_record"
    /\ Len(moves) <= MaxPly
    /\ \E time_used \in {0, MaxElapsed} :
           moves' = Append(moves, Move(LastPushed, LastPushed.by, time_used, board))
    /\ returned' = ReturnedNone("append")
    /\ UNCHANGED <<game_records, wins_required, abandoned, board, white_timer,
                   black_timer, elapsed_times, result, queue, ai_thread, workers,
                   pc, now, launched, received, read>>

\* GameRecord.append of the Move made of the last push: the move is added
\* while the result is None, else GameEndedException.
GameRecordAppend ==
    /\ pc = "game_record"
    /\ IF result.set
       THEN /\ returned' = Failed("append", "GameEndedException")
            /\ UNCHANGED moves
       ELSE /\ board # Last(moves).board
            /\ \E time_used \in {0, MaxElapsed} :
                   moves' = Append(moves,
                                Move(LastPushed, LastPushed.by, time_used, board))
            /\ returned' = ReturnedNone("append")
    /\ UNCHANGED <<game_records, wins_required, abandoned, board, white_timer,
                   black_timer, elapsed_times, result, queue, ai_thread, workers,
                   pc, now, launched, received, read>>

\* gr.result = GameResult(board, white_timer, black_timer, illegal_move) at
\* the end of a game, on the live board; a clock still running is the expired
\* clock of the side to move.
SetResult ==
    /\ pc = "game_record"
    /\ ~result.set
    /\ board = Last(moves).board
    /\ running(white_timer) => board.turn = WHITE /\ ~HasTimeAt(white_timer, now)
    /\ running(black_timer) => board.turn = BLACK /\ ~HasTimeAt(black_timer, now)
    /\ \E im \in {NoIllegalMove, IllegalMove(MoveOf(board.turn, "bad"))} :
           result' = GameResult(im)
    /\ returned' = ReturnedNone("result")
    /\ UNCHANGED <<moves, game_records, wins_required, abandoned, board,
                   white_timer, black_timer, elapsed_times, queue, ai_thread,
                   workers, pc, now, launched, received, read>>

\* to_dict(record), then to_dict(from_dict(to_dict(record))), compared.  The
\* first to_dict reads the result's colour, reason and short reason, which
\* computes and caches them.
RoundTrip ==
    /\ pc = "game_record"
    /\ result.set
    /\ LET o == Determined(result.color)
       IN  IF o.raised # None
           THEN /\ returned' = Failed("round_trip", o.raised)
                /\ UNCHANGED result
           ELSE LET d == game_to_dict(moves, board,
                             timer_to_dict(white_timer, elapsed_times_of(WHITE)),
                             timer_to_dict(black_timer, elapsed_times_of(BLACK)),
                             result.illegal_move, o)
                    again == reserialized(d, now)
                IN  /\ result' = Cache(o)
                    /\ returned' =
                           IF again.raised # None
                           THEN Failed("round_trip", again.raised)
                           ELSE Returned("round_trip",
                                    [same |-> again.dict = d,
                                     color |-> d.result.color,
                                     short_reason |-> d.result.short_reason,
                                     color_again |-> again.dict.result.color,
                                     short_reason_again |->
                                         again.dict.result.short_reason])
    /\ UNCHANGED <<moves, game_records, wins_required, abandoned, board,
                   white_timer, black_timer, elapsed_times, queue, ai_thread,
                   workers, pc, now, launched, received, read>>

GameRecordNext ==
    \/ PushLive
    \/ GameRecordAppend
    \/ SetResult
    \/ Tick
    \/ RoundTrip

GameRecordSpec == GameRecordInit /\ [][GameRecordNext]_vars

\* ------------------------------------------------------------------ claims
Odd(i) == i % 2 = 1

\* C1: the moves applied to the board strictly alternate in colour, White
\* first: the i-th applied move was computed by White's strategy when i is odd
\* and by Black's when i is even, and every step that changes the board
\* appends one move made by the side that was to move.
C1_MovesAlternate ==
    /\ [](\A i \in 1..Len(board.move_stack) :
             board.move_stack[i].by = IF Odd(i) THEN WHITE ELSE BLACK)
    /\ [][board' # board =>
             /\ Len(board'.move_stack) = Len(board.move_stack) + 1
             /\ Last(board'.move_stack).by = board.turn
             /\ board'.turn = Not(board.turn)]_vars

\* C1 witness: three moves have been applied, White, Black, White.
C1_Witness ==
    /\ Len(board.move_stack) = 3
    /\ board.move_stack[1].by = WHITE
    /\ board.move_stack[2].by = BLACK
    /\ board.move_stack[3].by = WHITE

\* C2: the board of the game changes only in the scheduler's tick that took a
\* legal move out of the queue, by pushing that move; a step of a worker on
\* its own board (push, pop) leaves the board of the game as it is.
C2_BoardOnlyByScheduler ==
    /\ [][board' # board =>
             /\ pc = "body"
             /\ Len(queue) >= 1
             /\ is_legal(board, Head(queue))
             /\ board' = push(board, Head(queue))]_vars
    /\ [][(\E i \in 1..Len(workers) :
               /\ Len(workers') = Len(workers)
               /\ workers'[i].board # workers[i].board) => board' = board]_vars

\* C2 witness: a worker has changed its own board, which now differs from the
\* board of the game.
C2_Witness ==
    \E i \in 1..Len(workers) :
        /\ workers[i].board # board
        /\ Len(board.move_stack) >= 1

\* C3: at most one of the two clocks is running, and a running clock is the
\* clock of the side to move.
C3_OneClockRuns ==
    /\ ~(running(white_timer) /\ running(black_timer))
    /\ running(white_timer) => board.turn = WHITE
    /\ running(black_timer) => board.turn = BLACK

\* C3 witness: after White's move Black's clock is running and White's is not.
C3_Witness ==
    /\ Len(board.move_stack) = 1
    /\ running(black_timer)
    /\ ~running(white_timer)
    /\ white_timer.time_clocked > 0

\* C4: at most one worker is outstanding: live workers and pending results
\* together number at most one, the queue never holds two, and while no
\* handle is held every launched worker's move has been taken.
C4_OneWorker ==
    /\ Len(queue) <= 1
    /\ Len(workers) + Len(queue) <= 1
    /\ launched - received <= 1
    /\ ai_thread = None => Len(workers) + Len(queue) = 0
    /\ ai_thread = None => launched = received

\* C4 witness: the second worker of a game is out, after the first one's move
\* was taken.
C4_Witness ==
    /\ launched = 2
    /\ received = 1
    /\ Len(workers) = 1
    /\ ai_thread # None

\* The worker launched for colour c will never deliver, and c's clock has a
\* finite budget.
HungOnFiniteClock(c) ==
    /\ pc \in {"loop", "body"}
    /\ \E i \in 1..Len(workers) : workers[i].state = "hung" /\ workers[i].ai = c
    /\ timer_of(c).seconds_left # Inf

\* The game is over as a time-out loss of colour c, and the move of the last
\* worker launched was neither received nor applied.
TimedOutLoss(c) ==
    /\ pc = "done"
    /\ result.set
    /\ ~result.illegal_move.present
    /\ LET o == base_determine_winner(board, white_timer, black_timer,
                                      result.illegal_move, now)
       IN  /\ o.raised = None
           /\ o.color = Not(c)
           /\ o.reason = IF c = WHITE THEN "White ran out of time"
                                      ELSE "Black ran out of time"
    /\ received = launched - 1
    /\ Len(board.move_stack) = received
    /\ board.turn = c

\* C5: if the strategy of the side to move never delivers and that side's
\* clock is finite, the game eventually ends as a time-out loss of that side
\* (its opponent wins), with no move of that worker received or applied.
C5_HungWorkerTimesOut ==
    \A c \in COLORS : HungOnFiniteClock(c) ~> TimedOutLoss(c)

\* C5 witness: Black's worker hung after one move of White, and the game has
\* ended as Black's time-out loss.
C5_Witness ==
    /\ TimedOutLoss(BLACK)
    /\ \E i \in 1..Len(workers) : workers[i].state = "hung" /\ workers[i].ai = BLACK

\* What a read of the game's result would compute now (game/base.py).
BaseOutcomeNow ==
    base_determine_winner(board, white_timer, black_timer, result.illegal_move, now)

\* What a read of a records/result.py GameResult would compute now.
OutcomeNow ==
    determine_winner(board, white_timer, black_timer, result.illegal_move, now)

\* C6: when the move taken from the queue is illegal, the board is unchanged
\* (the move is not on the stack, the offender is still to move), the game is
\* over, and the result is an illegal-move result won by the offender's opponent.
C6_IllegalMoveResult ==
    (pc = "done" /\ result.illegal_move.present) =>
        /\ Len(board.move_stack) = received - 1
        /\ board.turn = result.illegal_move.move.by
        /\ BaseOutcomeNow.raised = None
        /\ BaseOutcomeNow.color = Not(result.illegal_move.move.by)
        /\ BaseOutcomeNow.reason = "Illegal move"

\* C7: when the final board of a game is checkmate, the result is Checkmate
\* and the winner is the side that is not to move.
C7_CheckmateWinner ==
    (pc = "done" /\ result.set /\ is_checkmate(board)) =>
        /\ BaseOutcomeNow.reason = "Checkmate"
        /\ BaseOutcomeNow.color = Not(board.turn)

\* C8: on a board that is not checkmate, with an illegal move present, the
\* result is IllegalMove and the winner is the opponent of the offender (the
\* side to move on the board of the illegal move), whatever the clocks.
C8_IllegalMoveWinner ==
    (result.set /\ ~is_checkmate(board) /\ result.illegal_move.present) =>
        /\ OutcomeNow.raised = None
        /\ OutcomeNow.color = Not(result.illegal_move.move.by)
        /\ OutcomeNow.short_reason = "illegal move"

\* The first computation of a records/result.py GameResult: a step that fills
\* the reason.
Computes == result.reason = None /\ result'.reason # None

HasTime(tm) == seconds_left(tm, now) > 0

\* C9: with no checkmate and no illegal move, if exactly one clock has no time
\* left, the computed winner is the other side and the reason is time out.
C9_TimeOutWinner ==
    [][(/\ Computes
        /\ ~is_checkmate(board)
        /\ ~result.illegal_move.present
        /\ HasTime(white_timer) # HasTime(black_timer)) =>
           /\ result'.color = IF HasTime(white_timer) THEN WHITE ELSE BLACK
           /\ result'.reason = "time out"
           /\ result'.short_reason = "time out"]_vars

\* C9 witness: Black has exactly 0 seconds left against a live White clock,
\* and the result was computed as White's win by time out.
C9_Witness ==
    /\ ~is_checkmate(board)
    /\ ~result.illegal_move.present
    /\ seconds_left(black_timer, now) = 0
    /\ HasTime(white_timer)
    /\ result.color = WHITE
    /\ result.short_reason = "time out"

\* C10: with no checkmate, no illegal move and both clocks alive, the computed
\* result is: the side with strictly more seconds left (timer); with equal
\* seconds left the side with strictly less time clocked (compute time); with
\* both equal a tie without a winner.
C10_TimeComparison ==
    [][(/\ Computes
        /\ ~is_checkmate(board)
        /\ ~result.illegal_move.present
        /\ HasTime(white_timer)
        /\ HasTime(black_timer)) =>
           LET wl == seconds_left(white_timer, now)
               bl == seconds_left(black_timer, now)
               wc == time_clocked(white_timer, now)
               bc == time_clocked(black_timer, now)
               r  == result'
           IN  /\ wl > bl => r.color = WHITE /\ r.short_reason = "timer"
               /\ bl > wl => r.color = BLACK /\ r.short_reason = "timer"
               /\ (wl = bl /\ wc < bc) =>
                      r.color = WHITE /\ r.short_reason = "compute time"
               /\ (wl = bl /\ bc < wc) =>
                      r.color = BLACK /\ r.short_reason = "compute time"
               /\ (wl = bl /\ wc = bc) =>
                      r.color = None /\ r.short_reason = "total tie"
               /\ r.short_reason \in {"timer", "compute time", "total tie"}]_vars

\* C10 witness: both clocks alive with equal seconds left, Black clocked less,
\* and the result was computed as Black's win on compute time.
C10_Witness ==
    /\ ~is_checkmate(board)
    /\ ~result.illegal_move.present
    /\ HasTime(white_timer)
    /\ seconds_left(white_timer, now) = seconds_left(black_timer, now)
    /\ time_clocked(black_timer, now) < time_clocked(white_timer, now)
    /\ result.color = BLACK
    /\ result.short_reason = "compute time"

\* The board is still in play and both clocks have time left.
InPlay ==
    /\ ~is_game_over(board)
    /\ HasTime(white_timer)
    /\ HasTime(black_timer)

\* A step that starts a clock.
StartsClock ==
    \/ ~running(white_timer) /\ running(white_timer')
    \/ ~running(black_timer) /\ running(black_timer')

\* C11: a worker is launched and a clock started only in a pass of the loop in
\* which the board is not game-over and both clocks are alive; when the board
\* is game-over or a clock is not alive at the test of the loop, the game ends
\* there, with a result, no clock started and no worker launched.
C11_DispatchOnlyInPlay ==
    /\ []((pc = "body" /\ ai_thread = None) => InPlay)
    /\ [][(launched' # launched \/ StartsClock) =>
             /\ InPlay
             /\ pc = "body"
             /\ launched' = launched + 1
             /\ running(timer_of(board.turn)')
             /\ Len(workers') = Len(workers) + 1]_vars
    /\ [][(pc = "loop" /\ pc' # "loop" /\ ~InPlay) =>
             /\ pc' = "done"
             /\ result'.set
             /\ ~result'.illegal_move.present
             /\ UNCHANGED <<board, white_timer, black_timer, workers,
                            launched, ai_thread>>]_vars

\* C11 witness: after a move was played the loop found a clock without time
\* where a dispatch was due (no worker out), and the game ended there.
C11_Witness ==
    /\ pc = "done"
    /\ ~result.illegal_move.present
    /\ ai_thread = None
    /\ ~is_game_over(board)
    /\ ~HasTime(white_timer) \/ ~HasTime(black_timer)
    /\ launched >= 1
    /\ launched = received

\* C12: the end of the game is absorbing: once play_game has set the result,
\* the game stays ended; a later play_game or read of BaseGame.result returns
\* the result that was set, unchanged; and no step starts a clock, launches a
\* worker, or changes the board or a field of a clock.
C12_TerminalAbsorbing ==
    /\ [](pc = "done" => result.set)
    /\ [][pc = "done" =>
             /\ pc' = "done"
             /\ result'.set
             /\ result'.illegal_move = result.illegal_move
             /\ ~StartsClock
             /\ launched' = launched
             /\ Len(workers') <= Len(workers)
             /\ UNCHANGED <<board, white_timer, black_timer, elapsed_times,
                            ai_thread>>
             /\ returned' # returned =>
                    /\ returned'.op \in {"play_game", "result"}
                    /\ returned'.raised = None
                    /\ returned'.value = result
                    /\ result' = result]_vars

\* C12 witness: after a game of two moves ended, play_game was called again
\* and returned the result of the game.
C12_Witness ==
    /\ pc = "done"
    /\ Len(board.move_stack) = 2
    /\ launched >= 2
    /\ returned.op = "play_game"
    /\ returned.value = result

\* C13: a move delivered by the worker of a game that has ended is never
\* applied or taken.  The board of an ended game stays as it is; every move a
\* game takes from its queue was put there by a worker that game launched
\* (moves taken, moves waiting and workers still out add up to the workers
\* launched, and no more moves are on the board than were taken); and a
\* delivery by an abandoned worker changes nothing of the game being played
\* or of the games recorded.
C13_AbandonedMoveDiscarded ==
    /\ [](received + Len(queue) + Len(workers) = launched)
    /\ [](Len(board.move_stack) <= received)
    /\ [][(pc = "done" /\ pc' = "done") => board' = board]_vars
    /\ [][(Len(abandoned') = Len(abandoned) /\ abandoned' # abandoned) =>
             UNCHANGED <<board, queue, workers, ai_thread, received, launched,
                         result, pc, game_records>>]_vars
    /\ [][received' = received + 1 =>
             /\ launched = received + 1
             /\ Head(queue).by = board.turn]_vars

\* C13 witness: the first game of a match ended by time-out with Black's
\* worker still out; that worker has since delivered a move, to the queue of
\* its own game, while the second game has taken and applied a move of its own.
C13_Witness ==
    /\ Len(game_records) = 1
    /\ game_records[1].short_reason = "time out"
    /\ \E i \in 1..Len(abandoned) :
           /\ abandoned[i].ai = BLACK
           /\ Len(abandoned[i].queue) = 1
    /\ pc \in {"loop", "body"}
    /\ received = 1
    /\ Len(board.move_stack) = 1

\* C14: an illegal move or a clock expiry never reaches the caller as an
\* exception: the game ends with a result, no read of the result's colour or
\* reason raises, and the result names the opponent of the offender (illegal
\* move) or the side that still has time (expiry) as the winner.
C14_FaultYieldsResult ==
    /\ pc # "error"
    /\ (pc = "done" /\ result.illegal_move.present) =>
           /\ result.set
           /\ read # AttributeError
           /\ BaseOutcomeNow.raised = None
           /\ BaseOutcomeNow.color = Not(result.illegal_move.move.by)
    /\ (/\ pc = "done"
        /\ ~result.illegal_move.present
        /\ ~is_checkmate(board)
        /\ HasTime(white_timer) # HasTime(black_timer)) =>
           /\ result.set
           /\ read # AttributeError
           /\ BaseOutcomeNow.raised = None
           /\ BaseOutcomeNow.color = IF HasTime(white_timer) THEN WHITE ELSE BLACK

\* The worker launched for colour c will never deliver (it crashed or hangs),
\* whatever the kind of the clocks.
HungWorker(c) ==
    /\ pc \in {"loop", "body"}
    /\ \E i \in 1..Len(workers) : workers[i].state = "hung" /\ workers[i].ai = c

\* C15: with any kind of timer, a worker that never delivers leads to the end
\* of the game as a time-out loss of its side, with the board as it was when
\* the worker was launched (so play_match gets its game back).
C15_HungWorkerAnyTimer ==
    \A c \in COLORS : HungWorker(c) ~> TimedOutLoss(c)

\* What a read of the colour, and of the reason, of the result returns now:
\* the value, or the exception raised.
ColorRead ==
    LET o == Determined(result.color)
    IN  IF o.raised # None THEN o.raised ELSE o.color

ReasonRead ==
    LET o == Determined(result.reason)
    IN  IF o.raised # None THEN o.raised ELSE o.reason

\* C16: for a finished game, what a read of the result's winner colour and of
\* its reason returns never changes, whenever and however often it is read,
\* and a step that computes the result (or reads it) leaves the board and
\* every field of both clocks as they are.
C16_ResultIdempotent ==
    /\ [][pc = "done" =>
             /\ ColorRead' = ColorRead
             /\ ReasonRead' = ReasonRead]_vars
    /\ [][(pc = "done" /\ (result' # result \/ read' # read)) =>
             /\ UNCHANGED <<board, white_timer, black_timer, elapsed_times>>
             /\ read' \in {ColorRead, ReasonRead, result'.short_reason}]_vars

\* C16 witness: a game ended by Black's time-out with Black's clock left
\* running; its result was computed and read as White's win, and the clock
\* has run on below zero.
C16_Witness ==
    /\ pc = "done"
    /\ result.color = WHITE
    /\ result.reason = "time out"
    /\ read = WHITE
    /\ running(black_timer)
    /\ seconds_left(black_timer, now) < 0

\* A step in which the caller's call of method op on the clock returns or
\* raises (no time passes within the call).
CallOf(op) == returned'.op = op /\ now' = now

\* C17: on a clock of any kind, start() on a running clock and stop() on a
\* clock that is not running raise TimerError and leave every field of the
\* clock and its history unchanged; start() on a stopped clock succeeds and
\* sets it running from the present instant; stop() on a running clock
\* succeeds, leaves it not running and adds one entry to the history.
C17_StartStopFaults ==
    /\ [][CallOf("start") =>
             IF running(white_timer)
             THEN /\ returned'.raised = TimerError
                  /\ UNCHANGED <<white_timer, elapsed_times>>
             ELSE /\ returned'.raised = None
                  /\ white_timer' = [white_timer EXCEPT !.start_time = now]
                  /\ UNCHANGED elapsed_times]_vars
    /\ [][CallOf("stop") =>
             IF ~running(white_timer)
             THEN /\ returned'.raised = TimerError
                  /\ UNCHANGED <<white_timer, elapsed_times>>
             ELSE /\ returned'.raised = None
                  /\ ~running(white_timer')
                  /\ Len(elapsed_times') = Len(elapsed_times) + 1]_vars

\* C17 witness: an increment clock was started and stopped, and a second
\* stop() has raised TimerError.
C17_Witness ==
    /\ white_timer.class = "IncrementTimer"
    /\ Len(elapsed_times) = 1
    /\ ~running(white_timer)
    /\ returned.op = "stop"
    /\ returned.raised = TimerError

\* A successful stop() of a clock of class cls.
StopOf(cls) ==
    /\ CallOf("stop")
    /\ running(white_timer)
    /\ white_timer.class = cls

Min(a, b) == IF a <= b THEN a ELSE b

\* C19: a stop() of a Bronstein-delay clock adds back no more than
\* min(elapsed, increment), so the clock never has more remaining after a move
\* than before it; a stop() of a plain clock (BasicTimer) adds back nothing.
C19_BronsteinRefundBounded ==
    /\ [][StopOf("BronsteinDelayTimer") =>
             LET elapsed == elapsed_seconds(white_timer, now)
                 refund == white_timer'.seconds_left
                           - (white_timer.seconds_left - elapsed)
             IN  /\ refund >= 0
                 /\ refund <= Min(elapsed, white_timer.increment_seconds)
                 /\ white_timer'.seconds_left <= white_timer.seconds_left]_vars
    /\ [][StopOf("BasicTimer") =>
             white_timer'.seconds_left =
                 Minus(white_timer.seconds_left,
                       elapsed_seconds(white_timer, now))]_vars

\* C19 witness: a Bronstein clock of 2 seconds with increment 1 was stopped
\* after a move of 1 second and has its 2 seconds again.
C19_Witness ==
    /\ white_timer.class = "BronsteinDelayTimer"
    /\ white_timer.start_seconds = 2
    /\ white_timer.increment_seconds = 1
    /\ elapsed_times = <<1>>
    /\ ~running(white_timer)
    /\ white_timer.seconds_left = 2

\* C20: reading seconds_left, alive or display_time changes no field of the
\* clock nor its history; seconds_left returns remaining minus the time
\* elapsed since the start (remaining itself on a stopped clock, at whatever
\* instant it is read); and of two successive reads of seconds_left with no
\* start or stop between them the later never returns more, and returns the
\* same on a stopped clock.
C20_SecondsLeftPure ==
    /\ [][(CallOf("seconds_left") \/ CallOf("alive") \/ CallOf("display_time")) =>
             UNCHANGED <<white_timer, elapsed_times>>]_vars
    /\ [][CallOf("seconds_left") =>
             returned'.value =
                 IF running(white_timer)
                 THEN Minus(white_timer.seconds_left, now - white_timer.start_time)
                 ELSE white_timer.seconds_left]_vars
    /\ [](~running(white_timer) =>
             \A t \in now..(now + MaxElapsed) :
                 seconds_left(white_timer, t) = white_timer.seconds_left)
    /\ [][(returned.op = "seconds_left" /\ returned'.op = "seconds_left") =>
             /\ returned'.value <= returned.value
             /\ ~running(white_timer) => returned'.value = returned.value]_vars

\* C20 witness: seconds_left was read on a clock that had been running for
\* one second, and returned one second less than the clock's remaining.
C20_Witness ==
    /\ running(white_timer)
    /\ white_timer.seconds_left # Inf
    /\ now - white_timer.start_time = 1
    /\ returned.op = "seconds_left"
    /\ returned.value = white_timer.seconds_left - 1

RECURSIVE SumSeq(_)
SumSeq(q) == IF q = <<>> THEN 0 ELSE Head(q) + SumSeq(Tail(q))

\* C21: a count-up clock (BasicTimer) is alive in every reachable state,
\* now and at every later instant, whatever was started, stopped or elapsed;
\* and its total clocked time accumulates the elapsed time of every stop.
C21_BasicAlwaysAlive ==
    /\ [](white_timer.class = "BasicTimer" =>
             /\ \A t \in now..(now + MaxElapsed) : seconds_left(white_timer, t) > 0
             /\ white_timer.time_clocked = SumSeq(elapsed_times))
    /\ [][StopOf("BasicTimer") =>
             /\ white_timer'.time_clocked =
                    white_timer.time_clocked + (now - white_timer.start_time)
             /\ seconds_left(white_timer', now) > 0]_vars
    /\ [][(white_timer.class = "BasicTimer" /\ returned'.op = "alive") =>
             returned'.value = TRUE]_vars

\* C21 witness: a count-up clock was stopped twice, has clocked time, runs
\* again with time elapsed, and alive was read as true.
C21_Witness ==
    /\ white_timer.class = "BasicTimer"
    /\ Len(elapsed_times) = 2
    /\ white_timer.time_clocked >= 2
    /\ running(white_timer)
    /\ now - white_timer.start_time >= 1
    /\ returned.op = "alive"
    /\ returned.value = TRUE

Fresh(tm) ==
    /\ ~running(tm)
    /\ tm.seconds_left = tm.start_seconds
    /\ tm.time_clocked = 0

\* C22: the two clocks of a game start fresh (not running, remaining = the
\* configured start, nothing clocked, empty history), and a start or stop of
\* one player's clock changes no field and no history entry of the other
\* player's clock or of the configured timer.
C22_ClocksIndependent ==
    /\ [](launched = 0 =>
             /\ Fresh(white_timer) /\ elapsed_times_of(WHITE) = <<>>
             /\ Fresh(black_timer) /\ elapsed_times_of(BLACK) = <<>>)
    /\ [][white_timer' # white_timer =>
             /\ black_timer' = black_timer
             /\ elapsed_times_of(BLACK)' = elapsed_times_of(BLACK)
             /\ elapsed_times_of("base_timer")' = elapsed_times_of("base_timer")]_vars
    /\ [][black_timer' # black_timer =>
             /\ white_timer' = white_timer
             /\ elapsed_times_of(WHITE)' = elapsed_times_of(WHITE)
             /\ elapsed_times_of("base_timer")' = elapsed_times_of("base_timer")]_vars

white_wins == count_wins(game_records, WHITE)
black_wins == count_wins(game_records, BLACK)

\* C23: the winner of a match record is None whenever both win counts are
\* below wins_required; the append that first brings a side's count to
\* wins_required makes that side the winner, and every later append leaves
\* the winner as it is.
C23_WinnerAtThreshold ==
    /\ []((white_wins < wins_required /\ black_wins < wins_required) =>
             winner(game_records) = None)
    /\ [][(CallOf("append") /\ winner(game_records) = None) =>
             /\ white_wins' >= wins_required => winner(game_records') = WHITE
             /\ black_wins' >= wins_required => winner(game_records') = BLACK]_vars
    /\ [][(CallOf("append") /\ winner(game_records) # None) =>
             winner(game_records') = winner(game_records)]_vars

\* C24: once a match record has a winner, an append of a further game record
\* raises and leaves the list of game records (and so the counts and the
\* winner) as it is.
C24_AppendAfterWinnerRejected ==
    [][(CallOf("append") /\ winner(game_records) # None) =>
          /\ returned'.raised # None
          /\ game_records' = game_records]_vars

\* C26: the win counts derive from the winner of each recorded result alone:
\* a record won by White adds 1 to white_wins only, one won by Black adds 1
\* to black_wins only, a tie adds to neither, and the two counts add up to
\* the number of records that have a winner.
C26_WinCounts ==
    /\ [](white_wins + black_wins =
             Cardinality({i \in 1..Len(game_records) :
                             game_records[i].color \in COLORS}))
    /\ [][(CallOf("append") /\ Len(game_records') = Len(game_records) + 1) =>
             LET c == Last(game_records').color
             IN  /\ white_wins' = white_wins + (IF c = WHITE THEN 1 ELSE 0)
                 /\ black_wins' = black_wins + (IF c = BLACK THEN 1 ELSE 0)]_vars
    /\ [][(returned'.op \in {"white_wins", "black_wins"} /\ returned'.raised = None) =>
             returned'.value =
                 Cardinality({i \in 1..Len(game_records) :
                     game_records[i].color =
                         IF returned'.op = "white_wins" THEN WHITE ELSE BLACK})]_vars

\* C26 witness: a win of White, a tie and a win of Black are recorded, and
\* white_wins was read as 1.
C26_Witness ==
    /\ Len(game_records) = 3
    /\ game_records[1].color = WHITE
    /\ game_records[2].color = None
    /\ game_records[2].reason = "total tie"
    /\ game_records[3].color = BLACK
    /\ returned.op = "white_wins"
    /\ returned.raised = None
    /\ returned.value = 1

\* C28: no game record held by a match record lacks a result: an append of a
\* game record whose result is None raises ValueError and leaves the list as
\* it is, and from_dict on a dictionary holding such a record raises and
\* yields no match record.
C28_OnlyFinishedGames ==
    /\ [](\A i \in 1..Len(game_records) : game_records[i] # ResultNone)
    /\ [][(CallOf("append") /\ game_records' = game_records) =>
             returned'.raised = ValueError]_vars
    /\ [][(returned'.op \in {"append", "from_dict"} /\ returned'.raised # None) =>
             /\ returned'.raised = ValueError
             /\ game_records' = game_records]_vars

\* C28 witness: with one game recorded, from_dict on a dictionary that holds
\* a game record without a result has raised ValueError.
C28_Witness ==
    /\ Len(game_records) = 1
    /\ returned.op = "from_dict"
    /\ returned.raised = ValueError

C27_AppendAfterResultRejected ==
    [][CallOf("append") =>
          IF result.set
          THEN /\ returned'.raised = "GameEndedException"
               /\ moves' = moves
          ELSE /\ returned'.raised = None
               /\ Len(moves') = Len(moves) + 1
               /\ SubSeq(moves', 1, Len(moves)) = moves]_vars

\* An append was rejected on a record that has moves and a result.
C27_Witness ==
    /\ pc = "game_record"
    /\ result.set
    /\ Len(moves) >= 3
    /\ returned.op = "append"
    /\ returned.raised = "GameEndedException"

\* C29: for a finished GameRecord with at least 3 moves and a result that is
\* not a tie, however the game ended, serializing the rebuilt record gives
\* the dictionary the record was serialized to.
C29_RoundTripStable ==
    [][(/\ CallOf("round_trip")
        /\ Len(moves) >= 4
        /\ ~(returned'.raised = None /\ returned'.value.color = None))
       => (returned'.raised = None /\ returned'.value.same)]_vars

\* C30: when a game has ended because the clock of the side to move expired,
\* neither clock is running, and the time of the expired side's last turn has
\* been taken off its remaining time.
C30_ClockStoppedAtTimeout ==
    \A c \in COLORS :
        TimedOutLoss(c) =>
            /\ ~running(white_timer)
            /\ ~running(black_timer)
            /\ timer_of(c).seconds_left <= 0

\* A step of play_game that takes a move from the queue and pushes it.
AppliesMove ==
    /\ received' = received + 1
    /\ Len(board'.move_stack) = Len(board.move_stack) + 1

\* C31: every move applied to the board was committed within its mover's
\* time: right after the stop() that precedes the push, the mover's clock is
\* alive.
C31_AppliedWithinTime ==
    [][AppliesMove =>
          IF board.turn = WHITE
          THEN alive(white_timer', now')
          ELSE alive(black_timer', now')]_vars

\* The number of adjudication conditions that hold: checkmate, an illegal
\* move, a clock that is not alive.
ConditionsHolding ==
    (IF is_checkmate(board) THEN 1 ELSE 0)
    + (IF result.illegal_move.present THEN 1 ELSE 0)
    + (IF ~alive(white_timer, now) \/ ~alive(black_timer, now) THEN 1 ELSE 0)

\* C32: in every terminal state of a game at most one of the adjudication
\* conditions holds.
C32_ConditionsExclusive ==
    (pc = "done" /\ result.set) => ConditionsHolding <= 1

\* A stop() of a running clock of any class.
SuccessfulStop == CallOf("stop") /\ running(white_timer)

\* C33: stop() returns the elapsed time of the run it ended, for every kind
\* of clock.
C33_StopReturnsElapsed ==
    [][SuccessfulStop =>
          /\ returned'.raised = None
          /\ ~returned'.none
          /\ returned'.value = elapsed_seconds(white_timer, now)]_vars

C35_StopBookkeeping ==
    /\ [][SuccessfulStop =>
             LET elapsed == elapsed_seconds(white_timer, now)
                 left == Minus(white_timer.seconds_left, elapsed)
             IN  /\ white_timer'.seconds_left >= left
                 /\ white_timer'.seconds_left
                        <= Plus(left, white_timer.increment_seconds)
                 /\ white_timer'.time_clocked = white_timer.time_clocked + elapsed
                 /\ elapsed_times' = Append(elapsed_times, elapsed)
                 /\ ~running(white_timer')]_vars
    /\ [][~SuccessfulStop =>
             /\ elapsed_times' = elapsed_times
             /\ white_timer'.time_clocked = white_timer.time_clocked]_vars
    /\ [](white_timer.time_clocked = SumSeq(elapsed_times))

\* C35 witness: an increment clock has been stopped twice, after runs of
\* different lengths.
C35_Witness ==
    /\ pc = "timer"
    /\ ~running(white_timer)
    /\ Len(elapsed_times) = 2
    /\ elapsed_times[1] # elapsed_times[2]
    /\ white_timer.time_clocked = elapsed_times[1] + elapsed_times[2]
    /\ white_timer.class = "IncrementTimer"

\* C36: the record of a game holds one entry for the initial position and one
\* for each move applied: in every state it has 1 + the number of applied
\* moves entries, the first with no move, the last with the live board.
C36_RecordFollowsBoard ==
    /\ Len(moves) = 1 + Len(board.move_stack)
    /\ moves[1].move = NoMove
    /\ Last(moves).board = board

\* C37: a Move holds a snapshot of the board: a move pushed on the live
\* board, the board the last Move was created from, changes no field of any
\* entry of the record; and the entry made after the push records the board
\* with that move on it.
C37_MoveIsSnapshot ==
    /\ [][board' # board => moves' = moves]_vars
    /\ [][(CallOf("append") /\ ~result.set) =>
             /\ Last(moves').board = board
             /\ moves'[Len(moves)].board.move_stack = ButLast(board.move_stack)]_vars

\* C37 witness: three moves were pushed and recorded one after the other, and
\* the entries still hold the boards of 0, 1, 2 and 3 moves.
C37_Witness ==
    /\ pc = "game_record"
    /\ Len(moves) = 4
    /\ \A i \in 1..4 : Len(moves[i].board.move_stack) = i - 1
    /\ board = moves[4].board

\* The games of the match record that ended in a tie (result colour None).
TiedGames ==
    Cardinality({i \in 1..Len(game_records) :
                    game_records[i].raised = None /\ game_records[i].color = None})

C39_OneSideReachesThreshold ==
    /\ ~(white_wins >= wins_required /\ black_wins >= wins_required)
    /\ pc = "match_done" =>
           /\ read \in COLORS
           /\ count_wins(game_records, read) = wins_required
           /\ count_wins(game_records, Not(read)) < wins_required

\* C39 witness: a match of two wins required has ended with two wins of
\* White and none of Black.
C39_Witness ==
    /\ pc = "match_done"
    /\ wins_required = 2
    /\ read = WHITE
    /\ white_wins = 2
    /\ black_wins = 0

\* The keys of a serialized clock.
ClockKeys ==
    {"class", "start_seconds", "increment_seconds", "seconds_left",
     "time_clocked", "elapsed_times"}

\* C40: for every kind of clock the serialized clock carries the kind tag,
\* start seconds, increment seconds, seconds left, total clocked time and
\* history, and rebuilding from it through the kind tag succeeds and gives a
\* stopped clock of the same kind with the same remaining, total clocked time
\* and history.
C40_ClockRoundTrip ==
    /\ [][CallOf("to_dict") =>
             /\ ClockKeys \subseteq DOMAIN returned'.value
             /\ returned'.value.class = white_timer.class]_vars
    /\ [][CallOf("from_dict") =>
             /\ returned'.raised = None
             /\ returned'.value.timer.class = white_timer.class
             /\ ~running(returned'.value.timer)
             /\ returned'.value.timer.seconds_left = white_timer.seconds_left
             /\ returned'.value.timer.time_clocked = white_timer.time_clocked
             /\ returned'.value.elapsed_times = elapsed_times]_vars

====
